---------------------------- MODULE Spec2Model ----------------------------
(***************************************************************************)
(* Rule-chain administration of dnsdist (pdns/dnsdist-lua-rules.cc):       *)
(* rmRule, moveRuleToTop, mvRule, getTopRules, clearRules, setRules and    *)
(* showRules over a GlobalStateHolder<vector<DNSDistRuleAction>>.          *)
(***************************************************************************)
EXTENDS Naturals, Integers, Sequences, FiniteSets, TLC

\* ------------------------------------------------------------------ bounds
\* Longest Lua array handed to setRules; numeric arguments range over
\* 0 .. MaxLen + 1 so that out-of-range indices are drawn as well.
MaxLen == 3
\* Cap on a rule's match counter (d_matches) in the model.
MaxMatches == 2
\* Rule-action objects created from Lua.
MaxCreated == 3

\* --------------------------------------------------------------- universe
\* The DNSDistRuleAction objects the operator has created, numbered in
\* creation order.  P1 and P2 share a name, P3 carries a name that reads as
\* a UUID (of no rule), P4 has no action.
P1 == [d_id |-> 1, d_name |-> "a",  d_creationOrder |-> 0, d_action |-> TRUE,  d_rule |-> 1]
P2 == [d_id |-> 2, d_name |-> "a",  d_creationOrder |-> 1, d_action |-> TRUE,  d_rule |-> 2]
P3 == [d_id |-> 3, d_name |-> "u9", d_creationOrder |-> 2, d_action |-> TRUE,  d_rule |-> 3]
P4 == [d_id |-> 4, d_name |-> "",   d_creationOrder |-> 3, d_action |-> FALSE, d_rule |-> 4]
Pool == {P1, P2, P3, P4}
RuleIds == {p.d_rule : p \in Pool}

\* Strings handed to rmRule: names and textual UUIDs.
Strings == {"a", "zz", "u1", "u2", "u9"}
\* Numeric arguments (unsigned int).
Nums == 0 .. (MaxLen + 1)

\* Threads.  Nothing in this file says how many threads may be inside the
\* handlers at once; the threaded specification lets two run commands next
\* to a reader, which covers a program that lets fewer in.
Writers == {"w1", "w2"}
Readers == {"r1"}

\* Sequences of pairwise distinct elements of S, of length at most n.
RECURSIVE DistinctSeqs(_, _)
DistinctSeqs(S, n) ==
  IF n = 0 THEN {<< >>}
  ELSE LET shorter == DistinctSeqs(S, n - 1)
       IN shorter \cup
          {Append(s, x) : <<s, x>> \in
             {t \in shorter \X S : Len(t[1]) = n - 1
                                   /\ \A i \in 1 .. Len(t[1]) : t[1][i] # t[2]}}

\* The Lua arrays setRules may receive.
Inputs == DistinctSeqs(Pool, MaxLen)

\* Arguments of the commands that run as threads next to readers.
CowInputs == {<<P1, P4, P2>>, <<P2, P3>>}
CowNums == 0 .. 2

\* ------------------------------------------------------------- variables
VARIABLES
  rules,           \* g_ruleactions: the published vector
  g_outputBuffer,  \* console output of the last command ("" when none)
  matches,         \* d_rule->d_matches, per rule object
  ret,             \* value returned by the last command (<< >> when none)
  call,            \* the last command and the chain it started from
  prev,            \* the command before it, when that was a forward mvRule
  heap,            \* the vectors the holder has handed out, by allocation
  d_state,         \* GlobalStateHolder::d_state: the current one of them
  d_lock,          \* GlobalStateHolder::d_lock: "free", or the writer inside modify
  published,       \* every value that was the holder's state at some time
  wr,              \* per writer thread: its command and its position in it
  rd,              \* per reader thread: the snapshot it holds and its loop
  created,         \* the DNSDistRuleAction objects Lua holds, in creation order
  s_creationOrder, \* parseRuleParams' static counter
  respRules        \* the four response chains, by holder

seqVars == <<rules, g_outputBuffer, matches, ret, call, prev>>
cowVars == <<heap, d_state, d_lock, published, wr, rd>>
idVars == <<created, s_creationOrder>>
respVars == <<respRules>>
vars == <<rules, g_outputBuffer, matches, ret, call, prev,
          heap, d_state, d_lock, published, wr, rd, created, s_creationOrder,
          respRules>>

NoCall == [op |-> "none", str |-> "", a |-> 0, b |-> 0, endFirst |-> FALSE,
           input |-> << >>, pre |-> << >>, counts |-> << >>]

\* What a command leaves in g_outputBuffer, which the console hands over
\* empty to every command; "" stands for a command that wrote nothing.
ErrNoMatch  == "Error: no rule matched\n"
ErrDelete   == "Error: attempt to delete non-existing rule\n"
ErrMove     == "Error: attempt to move rules from/to invalid index\n"

\* ------------------------------------------------------- vector helpers
\* Positions are zero-based as in the source; sequences are one-based.
At(rs, i) == rs[i + 1]

\* vector::erase(begin() + i)
EraseAt(rs, i) == SubSeq(rs, 1, i) \o SubSeq(rs, i + 2, Len(rs))

\* vector::insert(begin() + i, x)
InsertAt(rs, i, x) == SubSeq(rs, 1, i) \o << x >> \o SubSeq(rs, i + 1, Len(rs))

\* ------------------------------------------------------------- UUIDs
\* getUniqueID(const std::string&): boost's string_generator; throws
\* std::runtime_error on text that is not a UUID.
UUIDText == [u1 |-> 1, u2 |-> 2, u9 |-> 9]
IsUUID(str) == str \in DOMAIN UUIDText
getUniqueID(str) == UUIDText[str]

\* ------------------------------------------------------- rulesToString
\* boost::format's "%-Nd"/"%-Ns" (left-justified) and "%Nd" (right-justified)
\* conversions: padding with spaces to width N, never cutting.
RECURSIVE Spaces(_)
Spaces(n) == IF n <= 0 THEN "" ELSE " " \o Spaces(n - 1)
FmtLeft(str, width) == str \o Spaces(width - Len(str))
FmtRight(str, width) == Spaces(width - Len(str)) \o str

\* d_rule->toString(), d_action->toString() and boost::uuids::to_string:
\* the texts of the objects of this universe ("u1" reads back as id 1).
RuleToString(e) == "rule" \o ToString(e.d_rule)
ActionToString(e) == "act"
UUIDToString(id) == "u" \o ToString(id)

\* std::string::substr(0, truncateRuleWidth).  The width is npos when the
\* option is absent; it is read as an int and kept in a size_t, so a
\* negative one is a huge length and nothing is cut.
Substr0(str, truncate, width) ==
  IF truncate /\ width >= 0 /\ width < Len(str) THEN SubSeq(str, 1, width) ELSE str

\* fmt("%-3d %-30s %9d %-56s %s\n")
FmtShort(num, name, nmatches, desc, action) ==
  FmtLeft(num, 3) \o " " \o FmtLeft(name, 30) \o " " \o FmtRight(nmatches, 9)
    \o " " \o FmtLeft(desc, 56) \o " " \o action \o "\n"

\* fmt("%-3d %-30s %-38s %9d %9d %-56s %s\n")
FmtLong(num, name, uuid, order, nmatches, desc, action) ==
  FmtLeft(num, 3) \o " " \o FmtLeft(name, 30) \o " " \o FmtLeft(uuid, 38)
    \o " " \o FmtRight(order, 9) \o " " \o FmtRight(nmatches, 9)
    \o " " \o FmtLeft(desc, 56) \o " " \o action \o "\n"

\* One row per entry, num counting from 0; ms[num + 1] is the value of the
\* entry's d_matches read when its row is made.
RECURSIVE RulesToStringRows(_, _, _, _, _, _)
RulesToStringRows(rs, ms, num, showUUIDs, truncate, width) ==
  IF num >= Len(rs) THEN ""
  ELSE LET lim == At(rs, num)
           desc == Substr0(RuleToString(lim), truncate, width)
       IN (IF showUUIDs
             THEN FmtLong(ToString(num), lim.d_name, UUIDToString(lim.d_id),
                          ToString(lim.d_creationOrder), ToString(ms[num + 1]),
                          desc, ActionToString(lim))
             ELSE FmtShort(ToString(num), lim.d_name, ToString(ms[num + 1]),
                           desc, ActionToString(lim)))
          \o RulesToStringRows(rs, ms, num + 1, showUUIDs, truncate, width)

\* rulesToString: the header, then the rows.
RulesToString(rs, ms, showUUIDs, truncate, width) ==
  (IF showUUIDs
     THEN FmtLong("#", "Name", "UUID", "Cr. Order", "Matches", "Rule", "Action")
     ELSE FmtShort("#", "Name", "Matches", "Rule", "Action"))
  \o RulesToStringRows(rs, ms, 0, showUUIDs, truncate, width)

\* The counters as one pass over rs reads them when nothing counts meanwhile.
LoadedNow(rs, m) == [i \in 1 .. Len(rs) |-> m[rs[i].d_rule]]

\* ------------------------------------------------------------- rmRule
\* The lambda handed to std::remove_if: by id when the string parses as a
\* UUID, by name in the catch block otherwise.
RmMatches(e, str) ==
  IF IsUUID(str) THEN e.d_id = getUniqueID(str) ELSE e.d_name = str

\* rules.erase(std::remove_if(begin, end, pred), end)
RmEraseRemoveIf(rs, str) == SelectSeq(rs, LAMBDA e : ~RmMatches(e, str))

\* `rules.erase(...) == rules.end()`.  The two operands are unsequenced.
\* When rules.end() is evaluated first it is the end before the erasure and
\* differs from the iterator erase returns iff something was erased; when it
\* is evaluated last, erase has returned the new end and they are equal.
RmNoRuleMatchedNever(rs, kept, endFirst) == FALSE
RmNoRuleMatched(rs, kept, endFirst) ==
  IF endFirst THEN Len(kept) = Len(rs) ELSE TRUE

\* `*pos >= rules.size()`
RmPosInvalidOffByOne(rs, pos) == pos > Len(rs)
RmPosInvalid(rs, pos) == pos >= Len(rs)

rmRuleStr(str, endFirst) ==
  LET kept == RmEraseRemoveIf(rules, str) IN
  /\ call' = [NoCall EXCEPT !.op = "rmRuleStr", !.str = str,
                            !.endFirst = endFirst, !.pre = rules]
  /\ prev' = NoCall
  /\ IF RmNoRuleMatched(rules, kept, endFirst)
       THEN /\ g_outputBuffer' = ErrNoMatch
            /\ rules' = rules
       ELSE /\ g_outputBuffer' = ""
            /\ rules' = kept
  /\ ret' = << >>
  /\ UNCHANGED matches
  /\ UNCHANGED cowVars
  /\ UNCHANGED idVars
  /\ UNCHANGED respVars

rmRulePos(pos) ==
  /\ call' = [NoCall EXCEPT !.op = "rmRulePos", !.a = pos, !.pre = rules]
  /\ prev' = NoCall
  /\ IF RmPosInvalid(rules, pos)
       THEN /\ g_outputBuffer' = ErrDelete
            /\ rules' = rules
       ELSE /\ g_outputBuffer' = ""
            /\ rules' = EraseAt(rules, pos)
  /\ ret' = << >>
  /\ UNCHANGED matches
  /\ UNCHANGED cowVars
  /\ UNCHANGED idVars
  /\ UNCHANGED respVars

\* ------------------------------------------------------ moveRuleToTop
MoveRuleToTopSeqEraseFirst(rs) ==
  IF rs = << >> THEN rs
  ELSE InsertAt(EraseAt(rs, 0), 0, rs[Len(rs)])
MoveRuleToTopSeq(rs) ==
  IF rs = << >> THEN rs
  ELSE LET subject == rs[Len(rs)]
       IN InsertAt(EraseAt(rs, Len(rs) - 1), 0, subject)

moveRuleToTop ==
  /\ call' = [NoCall EXCEPT !.op = "moveRuleToTop", !.pre = rules]
  /\ prev' = NoCall
  /\ g_outputBuffer' = ""
  /\ rules' = MoveRuleToTopSeq(rules)
  /\ ret' = << >>
  /\ UNCHANGED matches
  /\ UNCHANGED cowVars
  /\ UNCHANGED idVars
  /\ UNCHANGED respVars

\* ------------------------------------------------------------- mvRule
\* `from >= rules.size() || to > rules.size()`
MvInvalidOffByOne(rs, from, to) == from >= Len(rs) \/ to >= Len(rs)
MvInvalid(rs, from, to) == from >= Len(rs) \/ to > Len(rs)

\* The position handed to insert: `if (from < to) --to;`
MvTargetNoDecrement(from, to) == to
MvTarget(from, to) == IF from < to THEN to - 1 ELSE to

\* Lines 193-201, for indices that passed the check.
MvRuleSeqInsertFirst(rs, from, to) == EraseAt(InsertAt(rs, to, At(rs, from)), from)
MvRuleSeq(rs, from, to) ==
  LET subject == At(rs, from)
      erased  == EraseAt(rs, from)
  IN IF to > Len(erased)
       THEN Append(erased, subject)
       ELSE InsertAt(erased, MvTarget(from, to), subject)

mvRule(from, to) ==
  /\ call' = [NoCall EXCEPT !.op = "mvRule", !.a = from, !.b = to, !.pre = rules]
  /\ prev' = IF call.op = "mvRule" /\ call.a < call.b /\ call.b <= Len(call.pre)
               THEN call ELSE NoCall
  /\ IF MvInvalid(rules, from, to)
       THEN /\ g_outputBuffer' = ErrMove
            /\ rules' = rules
       ELSE /\ g_outputBuffer' = ""
            /\ rules' = MvRuleSeq(rules, from, to)
  /\ ret' = << >>
  /\ UNCHANGED matches
  /\ UNCHANGED cowVars
  /\ UNCHANGED idVars
  /\ UNCHANGED respVars

\* ------------------------------------------------ clearRules, setRules
clearRules ==
  /\ call' = [NoCall EXCEPT !.op = "clearRules", !.pre = rules]
  /\ prev' = NoCall
  /\ g_outputBuffer' = ""
  /\ rules' = << >>
  /\ ret' = << >>
  /\ UNCHANGED matches
  /\ UNCHANGED cowVars
  /\ UNCHANGED idVars
  /\ UNCHANGED respVars

\* The entry pushed for one element of the Lua array (line 334); makeRule
\* hands back the shared_ptr<DNSRule> it is given.
NewEntry(p) ==
  [d_rule |-> p.d_rule, d_action |-> p.d_action, d_name |-> p.d_name,
   d_id |-> p.d_id, d_creationOrder |-> p.d_creationOrder]

\* `if (newruleaction->d_action)`
SetRulesKeepsAll(p) == TRUE
SetRulesKeeps(p) == p.d_action

\* The lambda of setRules applied to the holder's vector: clear, then one
\* push_back per array element that has an action.
SetRulesSeqNoClear(old, input) ==
  old \o [i \in 1 .. Len(SelectSeq(input, SetRulesKeeps)) |->
            NewEntry(SelectSeq(input, SetRulesKeeps)[i])]
SetRulesSeq(old, input) ==
  LET kept == SelectSeq(input, SetRulesKeeps)
  IN [i \in 1 .. Len(kept) |-> NewEntry(kept[i])]

setRules(input) ==
  /\ call' = [NoCall EXCEPT !.op = "setRules", !.input = input, !.pre = rules]
  /\ prev' = NoCall
  /\ g_outputBuffer' = ""
  /\ rules' = SetRulesSeq(rules, input)
  /\ ret' = << >>
  /\ UNCHANGED matches
  /\ UNCHANGED cowVars
  /\ UNCHANGED idVars
  /\ UNCHANGED respVars

\* ---------------------------------------------------------- showRules
\* showRules run from the console: getLocal, then the table is appended to
\* the buffer the console handed over empty.
showRules(v) ==
  /\ call' = [NoCall EXCEPT !.op = "showRules", !.pre = rules]
  /\ prev' = NoCall
  /\ g_outputBuffer' = "" \o RulesToString(rules, LoadedNow(rules, matches), v.showUUIDs,
                                           v.truncate, v.truncateRuleWidth)
  /\ ret' = << >>
  /\ UNCHANGED <<rules, matches>>
  /\ UNCHANGED cowVars
  /\ UNCHANGED idVars
  /\ UNCHANGED respVars

\* ---------------------------------------------------------- benchRule
\* `times_.get_value_or(100000)`
BenchDefaultTimes == 100000
BenchTimes(run) == IF run.hasTimes THEN run.times ELSE BenchDefaultTimes

\* The runs of benchRule drawn: the optional count, how many of the random
\* questions the rule matched, and the stopwatch's reading, a whole number of
\* microseconds.  They cover a rate with no decimals, one that rounds up, one
\* that lies exactly between two printed values, one that lies between them
\* only mathematically, a count of zero and a reading of zero.
BenchRuns ==
  {[hasTimes |-> TRUE, times |-> 1, nmatches |-> 0, udiff |-> 1],
   [hasTimes |-> TRUE, times |-> 2, nmatches |-> 1, udiff |-> 3],
   [hasTimes |-> TRUE, times |-> 1, nmatches |-> 1, udiff |-> 256],
   [hasTimes |-> TRUE, times |-> 1, nmatches |-> 0, udiff |-> 1280],
   [hasTimes |-> TRUE, times |-> 1, nmatches |-> 1, udiff |-> 0],
   [hasTimes |-> TRUE, times |-> 0, nmatches |-> 0, udiff |-> 0],
   [hasTimes |-> FALSE, times |-> 0, nmatches |-> 100000, udiff |-> 100000]}

\* The decimal digits of a natural number, most significant first.
RECURSIVE Digits(_)
Digits(n) == IF n < 10 THEN <<n>> ELSE Append(Digits(n \div 10), n % 10)

RECURSIVE DigitsToString(_)
DigitsToString(ds) ==
  IF ds = << >> THEN "" ELSE ToString(Head(ds)) \o DigitsToString(Tail(ds))

RECURSIVE StripZeros(_)
StripZeros(ds) ==
  IF Len(ds) > 1 /\ Head(ds) = 0 THEN StripZeros(Tail(ds)) ELSE ds

\* ds + 1, carrying.
RECURSIVE Incr(_)
Incr(ds) ==
  IF ds = << >> THEN <<1>>
  ELSE IF ds[Len(ds)] < 9
       THEN [ds EXCEPT ![Len(ds)] = @ + 1]
       ELSE Append(Incr(SubSeq(ds, 1, Len(ds) - 1)), 0)

\* The number written ds divided by d, digit by digit: quotient and remainder.
RECURSIVE LongDiv(_, _, _, _)
LongDiv(ds, d, rem, acc) ==
  IF ds = << >> THEN [q |-> StripZeros(acc), r |-> rem]
  ELSE LongDiv(Tail(ds), d, (rem * 10 + Head(ds)) % d,
               Append(acc, (rem * 10 + Head(ds)) \div d))

RECURSIVE GCD(_, _)
GCD(a, b) == IF b = 0 THEN a ELSE GCD(b, a % b)

RECURSIVE IsPow2(_)
IsPow2(n) == n = 1 \/ (n > 1 /\ n % 2 = 0 /\ IsPow2(n \div 2))

\* "%.1f" of a non-negative value given in tenths, as digits.
FmtFixed1(tenths) ==
  LET ds == IF Len(tenths) = 1 THEN <<0>> \o tenths ELSE tenths
  IN DigitsToString(SubSeq(ds, 1, Len(ds) - 1)) \o "." \o ToString(ds[Len(ds)])

\* What "%.1f" prints for the double `1000000*(1.0*times/udiff)`.  The count
\* and the reading are below 2 * 10^8, where the double is off the exact
\* quotient by less than the quotient's distance to the nearest value halfway
\* between two printed ones, so that the nearest tenth is printed.  A quotient
\* exactly halfway is a double when times/udiff is one (its reduced
\* denominator is a power of two) and is printed to the even tenth; otherwise
\* the double lies on either side of it.  A reading of zero divides by 0.0:
\* infinity for a positive count, a NaN of either sign for zero.
BenchQps(times, udiff) ==
  IF udiff = 0
  THEN IF times > 0 THEN {"inf"} ELSE {"nan", "-nan"}
  ELSE LET res == LongDiv(Digits(times) \o <<0, 0, 0, 0, 0, 0, 0>>, udiff, 0, << >>)
           down == FmtFixed1(res.q)
           up == FmtFixed1(Incr(res.q))
           even == res.q[Len(res.q)] % 2 = 0
       IN IF 2 * res.r < udiff THEN {down}
          ELSE IF 2 * res.r > udiff THEN {up}
          ELSE IF IsPow2(udiff \div GCD(times, udiff))
               THEN {IF even THEN down ELSE up}
               ELSE {down, up}

\* "Had %d matches out of %d, %.1f qps, in %.1f usec\n"
BenchText(run, qps) ==
  "Had " \o ToString(run.nmatches) \o " matches out of " \o ToString(BenchTimes(run))
    \o ", " \o qps
    \o " qps, in " \o FmtFixed1(Append(Digits(run.udiff), 0)) \o " usec\n"

\* benchRule assigns its report to the buffer and touches no chain.
benchRule(run, qps) ==
  /\ qps \in BenchQps(BenchTimes(run), run.udiff)
  /\ call' = [NoCall EXCEPT !.op = "benchRule", !.a = BenchTimes(run), !.pre = rules]
  /\ prev' = NoCall
  /\ g_outputBuffer' = BenchText(run, qps)
  /\ ret' = << >>
  /\ UNCHANGED <<rules, matches>>
  /\ UNCHANGED cowVars
  /\ UNCHANGED idVars
  /\ UNCHANGED respVars

\* ----------------------------------------------------- response chains
\* g_respruleactions, g_cachehitrespruleactions,
\* g_cacheInsertedRespRuleActions and g_selfansweredrespruleactions: the same
\* four handlers, bound to each of these holders (lines 243-305).
RespHolders == {"resp", "cachehit", "cacheinserted", "selfanswered"}

showResponseRules(h, v) ==
  /\ call' = [NoCall EXCEPT !.op = "showResponseRules", !.str = h,
                            !.pre = respRules[h]]
  /\ prev' = NoCall
  /\ g_outputBuffer' = "" \o RulesToString(respRules[h],
                                           LoadedNow(respRules[h], matches), v.showUUIDs,
                                           v.truncate, v.truncateRuleWidth)
  /\ ret' = << >>
  /\ UNCHANGED <<rules, matches>>
  /\ UNCHANGED respVars
  /\ UNCHANGED cowVars
  /\ UNCHANGED idVars

rmResponseRuleStr(h, str, endFirst) ==
  LET kept == RmEraseRemoveIf(respRules[h], str) IN
  /\ call' = [NoCall EXCEPT !.op = "rmResponseRuleStr", !.str = str,
                            !.endFirst = endFirst, !.pre = respRules[h]]
  /\ prev' = NoCall
  /\ IF RmNoRuleMatched(respRules[h], kept, endFirst)
       THEN /\ g_outputBuffer' = ErrNoMatch
            /\ respRules' = respRules
       ELSE /\ g_outputBuffer' = ""
            /\ respRules' = [respRules EXCEPT ![h] = kept]
  /\ ret' = << >>
  /\ UNCHANGED <<rules, matches>>
  /\ UNCHANGED cowVars
  /\ UNCHANGED idVars

rmResponseRulePos(h, pos) ==
  /\ call' = [NoCall EXCEPT !.op = "rmResponseRulePos", !.a = pos,
                            !.pre = respRules[h]]
  /\ prev' = NoCall
  /\ IF RmPosInvalid(respRules[h], pos)
       THEN /\ g_outputBuffer' = ErrDelete
            /\ respRules' = respRules
       ELSE /\ g_outputBuffer' = ""
            /\ respRules' = [respRules EXCEPT ![h] = EraseAt(@, pos)]
  /\ ret' = << >>
  /\ UNCHANGED <<rules, matches>>
  /\ UNCHANGED cowVars
  /\ UNCHANGED idVars

mvResponseRuleToTop(h) ==
  /\ call' = [NoCall EXCEPT !.op = "mvResponseRuleToTop", !.pre = respRules[h]]
  /\ prev' = NoCall
  /\ g_outputBuffer' = ""
  /\ respRules' = [respRules EXCEPT ![h] = MoveRuleToTopSeq(@)]
  /\ ret' = << >>
  /\ UNCHANGED <<rules, matches>>
  /\ UNCHANGED cowVars
  /\ UNCHANGED idVars

mvResponseRule(h, from, to) ==
  /\ call' = [NoCall EXCEPT !.op = "mvResponseRule", !.a = from, !.b = to,
                            !.pre = respRules[h]]
  /\ prev' = NoCall
  /\ IF MvInvalid(respRules[h], from, to)
       THEN /\ g_outputBuffer' = ErrMove
            /\ respRules' = respRules
       ELSE /\ g_outputBuffer' = ""
            /\ respRules' = [respRules EXCEPT ![h] = MvRuleSeq(@, from, to)]
  /\ ret' = << >>
  /\ UNCHANGED <<rules, matches>>
  /\ UNCHANGED cowVars
  /\ UNCHANGED idVars

\* ------------------------------------------------- rule-action creation
\* The optional table a rule-creating call is given: absent (the empty map
\* behaves the same), or holding "uuid" and/or "name".
NoParams == [k \in {} |-> ""]
RuleParams ==
  {NoParams, "uuid" :> "zz", "uuid" :> "u1",
   ("uuid" :> "u1") @@ ("name" :> "a")}

\* getUniqueID(): a generated UUID, different from every earlier one and
\* from the textual ones; n counts the objects created before.
getUniqueIDGenerated(n) == 100 + n

\* makeRuleID: generated when the string is empty, parsed otherwise (and
\* then it throws on text that is not a UUID).
MakeRuleIDThrows(id) == id # "" /\ ~IsUUID(id)
makeRuleID(id, n) == IF id = "" THEN getUniqueIDGenerated(n) ELSE getUniqueID(id)

\* parseRuleParams: the uuid, name and creationOrder it hands back, given
\* the value n of s_creationOrder.  `name` comes in empty.
ParamOr(params, key) == IF key \in DOMAIN params THEN params[key] ELSE ""
ParseRuleParams(params, n) ==
  [uuid |-> makeRuleID(ParamOr(params, "uuid"), n),
   name |-> ParamOr(params, "name"),
   creationOrder |-> n]

\* A rule-action object is created: parseRuleParams runs, and its results
\* become the object's d_id, d_name and d_creationOrder.  When makeRuleID
\* throws nothing is created and the counter keeps its value.
newRuleAction(params) ==
  /\ Len(created) < MaxCreated
  /\ ~MakeRuleIDThrows(ParamOr(params, "uuid"))
  /\ LET parsed == ParseRuleParams(params, s_creationOrder)
     IN created' = Append(created,
                     [d_id |-> parsed.uuid, d_name |-> parsed.name,
                      d_creationOrder |-> parsed.creationOrder,
                      d_action |-> TRUE, d_rule |-> s_creationOrder + 1])
  /\ s_creationOrder' = s_creationOrder + 1
  /\ UNCHANGED seqVars
  /\ UNCHANGED cowVars
  /\ UNCHANGED respVars

\* The Lua arrays setRules may receive once objects exist.
CreatedInputs == DistinctSeqs({created[i] : i \in DOMAIN created}, MaxLen)

\* -------------------------------------------------------- getTopRules
\* The hot path counts a match of a rule of the chain (d_matches++).
Match(r) ==
  /\ \E i \in 1 .. Len(rules) : rules[i].d_rule = r
  /\ matches[r] < MaxMatches
  /\ matches' = [matches EXCEPT ![r] = @ + 1]
  /\ call' = NoCall
  /\ prev' = NoCall
  /\ ret' = << >>
  /\ UNCHANGED <<rules, g_outputBuffer>>
  /\ UNCHANGED cowVars
  /\ UNCHANGED idVars
  /\ UNCHANGED respVars

\* Lines 208-215: one (d_matches, position) pair per entry, from the
\* values ms the loop loaded.
Counts(ms) == [i \in 1 .. Len(ms) |-> <<ms[i], i - 1>>]

\* The comparator handed to sort: `b.first < a.first`.
TopComp(a, b) == b[1] < a[1]

\* std::sort with that comparator: some permutation of the pairs in which no
\* later pair is ordered before an earlier one.  The order of pairs the
\* comparator holds equivalent is unspecified.
SortOutcomes(counts) ==
  LET n == Len(counts)
      perms == {f \in [1 .. n -> 1 .. n] : \A i, j \in 1 .. n : i # j => f[i] # f[j]}
  IN {[i \in 1 .. n |-> counts[f[i]]] :
        f \in {g \in perms : \A i, j \in 1 .. n :
                               i < j => ~TopComp(counts[g[j]], counts[g[i]])}}

\* Lines 225-232: copy entries in sorted order, stop once `count == top`.
RECURSIVE TopLoop(_, _, _, _, _)
TopLoop(rs, sorted, top, count, results) ==
  IF count = Len(sorted) THEN results
  ELSE LET entry == sorted[count + 1]
           grown == Append(results, At(rs, entry[2]))
       IN IF count + 1 = top THEN grown
          ELSE TopLoop(rs, sorted, top, count + 1, grown)

\* ------------------------------------------------------------ makeRule
\* What makeRule is handed (luadnsrule_t): a rule, a string, an array of
\* strings, a DNSName or an array of DNSNames.
MaskStrings == {"10.0.0.0/8", "192.0.2.1"}
NameStrings == {"example.com", "Example.COM", "powerdns.org"}
DNSNames == {"example.com.", "powerdns.org."}

\* All sequences over S of length at most n.
RECURSIVE SeqsUpTo(_, _)
SeqsUpTo(S, n) ==
  IF n = 0 THEN {<< >>}
  ELSE LET shorter == SeqsUpTo(S, n - 1)
       IN shorter \cup {Append(t[1], t[2]) : t \in {u \in shorter \X S : Len(u[1]) = n - 1}}

MakeInputs ==
  {[type |-> "rule", val |-> r] : r \in RuleIds}
  \cup {[type |-> "string", val |-> str] : str \in MaskStrings \cup NameStrings}
  \cup {[type |-> "strings", val |-> a] : a \in SeqsUpTo(MaskStrings \cup NameStrings, MaxLen)}
  \cup {[type |-> "name", val |-> n] : n \in DNSNames}
  \cup {[type |-> "names", val |-> a] : a \in SeqsUpTo(DNSNames, MaxLen)}

\* NetmaskGroup::addMask accepts the text of an address or of a network and
\* throws on anything else; an address is the network of that one address.
IsMask(str) == str \in MaskStrings
MaskOf(str) ==
  IF str = "10.0.0.0/8" THEN [net |-> "10.0.0.0", bits |-> 8]
                        ELSE [net |-> "192.0.2.1", bits |-> 32]

\* DNSName(const std::string&): the name, compared without regard to case.
DNSNameOf(str) == IF str = "powerdns.org" THEN "powerdns.org." ELSE "example.com."

\* The lambda `add` (lines 33-39) on the pair of accumulators.
MakeAdd(acc, src) ==
  IF IsMask(src)
    THEN [acc EXCEPT !.nmg = @ \cup {MaskOf(src)}]
    ELSE [acc EXCEPT !.smn = @ \cup {DNSNameOf(src)}]

RECURSIVE MakeAddAll(_, _, _)
MakeAddAll(acc, a, k) ==
  IF k > Len(a) THEN acc ELSE MakeAddAll(MakeAdd(acc, a[k]), a, k + 1)

RECURSIVE MakeAddNames(_, _, _)
MakeAddNames(acc, a, k) ==
  IF k > Len(a) THEN acc
  ELSE MakeAddNames([acc EXCEPT !.smn = @ \cup {a[k]}], a, k + 1)

NoPredicate == [kind |-> "none", rule |-> 0, nmg |-> {}, smn |-> {}, src |-> FALSE]

\* Lines 55-58: `if (nmg.empty())` a SuffixMatchNodeRule, else a
\* NetmaskGroupRule on the source address.
MakeResultSuffixFirst(acc) ==
  IF acc.smn # {}
    THEN [NoPredicate EXCEPT !.kind = "SuffixMatchNodeRule", !.smn = acc.smn]
    ELSE [NoPredicate EXCEPT !.kind = "NetmaskGroupRule", !.nmg = acc.nmg, !.src = TRUE]
MakeResult(acc) ==
  IF acc.nmg = {}
    THEN [NoPredicate EXCEPT !.kind = "SuffixMatchNodeRule", !.smn = acc.smn]
    ELSE [NoPredicate EXCEPT !.kind = "NetmaskGroupRule", !.nmg = acc.nmg, !.src = TRUE]

\* makeRule, lines 26-59.
MakeRule(var) ==
  LET empty == [nmg |-> {}, smn |-> {}] IN
  IF var.type = "rule" THEN [NoPredicate EXCEPT !.kind = "DNSRule", !.rule = var.val]
  ELSE IF var.type = "string" THEN MakeResult(MakeAdd(empty, var.val))
  ELSE IF var.type = "strings" THEN MakeResult(MakeAddAll(empty, var.val, 1))
  ELSE IF var.type = "name" THEN MakeResult([empty EXCEPT !.smn = {var.val}])
  ELSE MakeResult(MakeAddNames(empty, var.val, 1))

makeRule(var) ==
  /\ call' = [NoCall EXCEPT !.op = "makeRule", !.input = var]
  /\ prev' = NoCall
  /\ g_outputBuffer' = ""
  /\ ret' = MakeRule(var)
  /\ UNCHANGED <<rules, matches>>
  /\ UNCHANGED cowVars
  /\ UNCHANGED idVars
  /\ UNCHANGED respVars

\* ------------------------------------------- threads over the holder
\* GlobalStateHolder<vector<T>>: getLocal hands a reader the current vector by
\* one atomic load; getCopy hands a writer a private copy; setState installs a
\* vector as the new current one in one atomic step; modify(act) runs act on a
\* private copy under the holder's lock and installs the result.

\* A thread that is not inside a command.
IdleWriter == [pc |-> "idle", op |-> "none", str |-> "", a |-> 0, b |-> 0,
               endFirst |-> FALSE, input |-> << >>, k |-> 0,
               subject |-> << >>, local |-> << >>]
IdleReader == [pc |-> "idle", held |-> 0, snap |-> << >>, pos |-> 0, seen |-> << >>,
               counts |-> << >>]

\* Most vectors the holder installs in one run of the model.
MaxPublish == 2
\* showRules starts only while g_outputBuffer holds at most this many
\* characters (an error message fits, a table does not).
MaxOutput == 60

\* The options showRules is given: none, both of them, a negative width.
ShowVars ==
  {[showUUIDs |-> FALSE, truncate |-> FALSE, truncateRuleWidth |-> 0],
   [showUUIDs |-> TRUE, truncate |-> TRUE, truncateRuleWidth |-> 2],
   [showUUIDs |-> FALSE, truncate |-> TRUE, truncateRuleWidth |-> -1]}

\* `auto rules = someRuleActions->getCopy();` : the vector rmRule, mvRule and
\* moveRuleToTop work on is their own copy.
GetCopyVectorShared == "shared"
GetCopyVector == "copy"

\* The vector modify hands to the lambda of clearRules and setRules.
ModifyVector == "copy"

UsesModify(op) == op \in {"clearRules", "setRules"}
WorkingVector(op) == IF UsesModify(op) THEN ModifyVector ELSE GetCopyVector

\* The vector writer w is working on, and an assignment to it.
Work(w) == IF WorkingVector(wr[w].op) = "copy" THEN wr[w].local ELSE heap[d_state]

WriteWork(w, value, next) ==
  IF WorkingVector(wr[w].op) = "copy"
    THEN /\ wr' = [wr EXCEPT ![w] = [next EXCEPT !.local = value]]
         /\ UNCHANGED heap
    ELSE /\ wr' = [wr EXCEPT ![w] = next]
         /\ heap' = [heap EXCEPT ![d_state] = value]

CowCommands ==
  {[IdleWriter EXCEPT !.op = "rmRulePos", !.a = pos] : pos \in CowNums}
  \cup {[IdleWriter EXCEPT !.op = "rmRuleStr", !.str = str, !.endFirst = e] :
          str \in {"a", "u9"}, e \in BOOLEAN}
  \cup {[IdleWriter EXCEPT !.op = "moveRuleToTop"]}
  \cup {[IdleWriter EXCEPT !.op = "mvRule", !.a = from, !.b = to] :
          from \in CowNums, to \in CowNums}
  \cup {[IdleWriter EXCEPT !.op = "clearRules"]}
  \cup {[IdleWriter EXCEPT !.op = "setRules", !.input = input] : input \in CowInputs}

\* The commands that run next to a reader: of each kind, the arguments that
\* succeed on some chain and those that fail on every chain.
CowReadCommands ==
  {c \in CowCommands :
     /\ c.op = "rmRulePos" => c.a \in {0, 2}
     /\ c.op = "rmRuleStr" => c.str = "a"
     /\ c.op = "mvRule" => <<c.a, c.b>> \in {<<0, 2>>, <<1, 0>>, <<2, 0>>}}

\* A command starts: getCopy (lines 140, 176, 188), or modify taking the
\* holder's lock and copying the state (lines 321, 328).
W_Begin(w, cmd) ==
  /\ wr[w].pc = "idle"
  /\ d_lock = "free"
  /\ Len(heap) <= MaxPublish
  /\ wr' = [wr EXCEPT ![w] = [cmd EXCEPT !.local = heap[d_state],
                                         !.pc = IF UsesModify(cmd.op) THEN "clear" ELSE "check"]]
  /\ d_lock' = IF UsesModify(cmd.op) THEN w ELSE "free"
  /\ UNCHANGED <<heap, d_state, published, rd>>
  /\ UNCHANGED seqVars
  /\ UNCHANGED idVars
  /\ UNCHANGED respVars

\* rmRule with a position, lines 164-168.
W_RmPos(w) ==
  /\ wr[w].pc = "check" /\ wr[w].op = "rmRulePos"
  /\ IF RmPosInvalid(Work(w), wr[w].a)
       THEN wr' = [wr EXCEPT ![w] = IdleWriter] /\ UNCHANGED heap
       ELSE WriteWork(w, EraseAt(Work(w), wr[w].a), [wr[w] EXCEPT !.pc = "publish"])
  /\ g_outputBuffer' = IF RmPosInvalid(Work(w), wr[w].a) THEN ErrDelete
                                                         ELSE g_outputBuffer
  /\ UNCHANGED <<d_state, d_lock, published, rd>>
  /\ UNCHANGED <<rules, matches, ret, call, prev>>
  /\ UNCHANGED idVars
  /\ UNCHANGED respVars

\* rmRule with a string, lines 142-161: the erasure, then the comparison.
W_RmStr(w) ==
  /\ wr[w].pc = "check" /\ wr[w].op = "rmRuleStr"
  /\ LET kept == RmEraseRemoveIf(Work(w), wr[w].str)
     IN WriteWork(w, kept,
          IF RmNoRuleMatched(Work(w), kept, wr[w].endFirst)
            THEN IdleWriter ELSE [wr[w] EXCEPT !.pc = "publish"])
  /\ g_outputBuffer' =
       IF RmNoRuleMatched(Work(w), RmEraseRemoveIf(Work(w), wr[w].str), wr[w].endFirst)
         THEN ErrNoMatch ELSE g_outputBuffer
  /\ UNCHANGED <<d_state, d_lock, published, rd>>
  /\ UNCHANGED <<rules, matches, ret, call, prev>>
  /\ UNCHANGED idVars
  /\ UNCHANGED respVars

\* mvRule, lines 189-194: the check, the copy of the subject, the erasure.
W_MvErase(w) ==
  /\ wr[w].pc = "check" /\ wr[w].op = "mvRule"
  /\ IF MvInvalid(Work(w), wr[w].a, wr[w].b)
       THEN wr' = [wr EXCEPT ![w] = IdleWriter] /\ UNCHANGED heap
       ELSE WriteWork(w, EraseAt(Work(w), wr[w].a),
                      [wr[w] EXCEPT !.pc = "insert", !.subject = << At(Work(w), wr[w].a) >>])
  /\ g_outputBuffer' = IF MvInvalid(Work(w), wr[w].a, wr[w].b) THEN ErrMove
                                                             ELSE g_outputBuffer
  /\ UNCHANGED <<d_state, d_lock, published, rd>>
  /\ UNCHANGED <<rules, matches, ret, call, prev>>
  /\ UNCHANGED idVars
  /\ UNCHANGED respVars

\* mvRule, lines 195-201: push_back or insert.
W_MvInsert(w) ==
  /\ wr[w].pc = "insert" /\ wr[w].op = "mvRule"
  /\ WriteWork(w,
       IF wr[w].b > Len(Work(w))
         THEN Append(Work(w), wr[w].subject[1])
         ELSE InsertAt(Work(w), MvTarget(wr[w].a, wr[w].b), wr[w].subject[1]),
       [wr[w] EXCEPT !.pc = "publish"])
  /\ UNCHANGED <<d_state, d_lock, published, rd>>
  /\ UNCHANGED seqVars
  /\ UNCHANGED idVars
  /\ UNCHANGED respVars

\* moveRuleToTop, lines 177-180.
W_TopErase(w) ==
  /\ wr[w].pc = "check" /\ wr[w].op = "moveRuleToTop"
  /\ IF Work(w) = << >>
       THEN wr' = [wr EXCEPT ![w] = IdleWriter] /\ UNCHANGED heap
       ELSE WriteWork(w, EraseAt(Work(w), Len(Work(w)) - 1),
                      [wr[w] EXCEPT !.pc = "insert", !.subject = << Work(w)[Len(Work(w))] >>])
  /\ UNCHANGED <<d_state, d_lock, published, rd>>
  /\ UNCHANGED seqVars
  /\ UNCHANGED idVars
  /\ UNCHANGED respVars

\* moveRuleToTop, line 181.
W_TopInsert(w) ==
  /\ wr[w].pc = "insert" /\ wr[w].op = "moveRuleToTop"
  /\ WriteWork(w, InsertAt(Work(w), 0, wr[w].subject[1]), [wr[w] EXCEPT !.pc = "publish"])
  /\ UNCHANGED <<d_state, d_lock, published, rd>>
  /\ UNCHANGED seqVars
  /\ UNCHANGED idVars
  /\ UNCHANGED respVars

\* ruleactions.clear() of clearRules (line 322) and setRules (line 329).
W_Clear(w) ==
  /\ wr[w].pc = "clear"
  /\ WriteWork(w, << >>,
       [wr[w] EXCEPT !.pc = IF wr[w].op = "setRules" THEN "push" ELSE "publish"])
  /\ UNCHANGED <<d_state, d_lock, published, rd>>
  /\ UNCHANGED seqVars
  /\ UNCHANGED idVars
  /\ UNCHANGED respVars

\* One turn of the loop of setRules, lines 330-336.
W_Push(w) ==
  /\ wr[w].pc = "push"
  /\ IF wr[w].k < Len(wr[w].input)
       THEN LET p == wr[w].input[wr[w].k + 1]
            IN WriteWork(w,
                 IF SetRulesKeeps(p) THEN Append(Work(w), NewEntry(p)) ELSE Work(w),
                 [wr[w] EXCEPT !.k = @ + 1])
       ELSE wr' = [wr EXCEPT ![w].pc = "publish"] /\ UNCHANGED heap
  /\ UNCHANGED <<d_state, d_lock, published, rd>>
  /\ UNCHANGED seqVars
  /\ UNCHANGED idVars
  /\ UNCHANGED respVars

\* setState (lines 170, 182, 202), or the end of modify: the vector becomes
\* the holder's state.
W_Publish(w) ==
  /\ wr[w].pc = "publish"
  /\ d_lock = IF UsesModify(wr[w].op) THEN w ELSE "free"
  /\ heap' = Append(heap, Work(w))
  /\ d_state' = Len(heap) + 1
  /\ published' = published \cup {Work(w)}
  /\ d_lock' = "free"
  /\ wr' = [wr EXCEPT ![w] = IdleWriter]
  /\ UNCHANGED rd
  /\ UNCHANGED seqVars
  /\ UNCHANGED idVars
  /\ UNCHANGED respVars

\* showRules line 133, getTopRules/topRules lines 342 and 348: getLocal.
R_GetLocal(r) ==
  /\ rd[r].pc = "idle"
  /\ Len(g_outputBuffer) <= MaxOutput
  /\ rd' = [rd EXCEPT ![r] = [IdleReader EXCEPT !.pc = "iter", !.held = d_state,
                                                !.snap = heap[d_state]]]
  /\ UNCHANGED <<heap, d_state, d_lock, published, wr>>
  /\ UNCHANGED seqVars
  /\ UNCHANGED idVars
  /\ UNCHANGED respVars

\* One turn of the loop over *rules (lines 111-115, 120-124): the entry and
\* the value its d_matches has at this moment make one row.
R_Next(r) ==
  /\ rd[r].pc = "iter"
  /\ IF rd[r].pos < Len(heap[rd[r].held])
       THEN LET lim == heap[rd[r].held][rd[r].pos + 1]
            IN rd' = [rd EXCEPT ![r].seen = Append(@, lim),
                                ![r].counts = Append(@, matches[lim.d_rule]),
                                ![r].pos = @ + 1]
       ELSE rd' = [rd EXCEPT ![r].pc = "done"]
  /\ UNCHANGED <<heap, d_state, d_lock, published, wr>>
  /\ UNCHANGED seqVars
  /\ UNCHANGED idVars
  /\ UNCHANGED respVars

\* `g_outputBuffer += rulesToString(*rules, vars);` (line 134), then the
\* reader returns and drops its reference.  The options v of the call only
\* shape the text, so they are drawn here, where the text is made.
R_Return(r, v) ==
  /\ rd[r].pc = "done"
  /\ g_outputBuffer' = g_outputBuffer \o
       RulesToString(rd[r].seen, rd[r].counts, v.showUUIDs,
                     v.truncate, v.truncateRuleWidth)
  /\ rd' = [rd EXCEPT ![r] = IdleReader]
  /\ UNCHANGED <<heap, d_state, d_lock, published, wr>>
  /\ UNCHANGED <<rules, matches, ret, call, prev>>
  /\ UNCHANGED idVars
  /\ UNCHANGED respVars

\* getTopRules as a reader of the holder.
\* `top.get_value_or(10)`
TopDefault == 10

\* The binding of getTopRules (lines 340-344): getLocal.  What the command
\* before returned is forgotten.
T_GetLocal(r) ==
  /\ rd[r].pc = "idle"
  /\ rd' = [rd EXCEPT ![r] = [IdleReader EXCEPT !.pc = "load", !.held = d_state,
                                                !.snap = heap[d_state]]]
  /\ call' = NoCall
  /\ prev' = NoCall
  /\ ret' = << >>
  /\ UNCHANGED <<heap, d_state, d_lock, published, wr>>
  /\ UNCHANGED <<rules, g_outputBuffer, matches>>
  /\ UNCHANGED idVars
  /\ UNCHANGED respVars

\* One turn of the loop of lines 212-215: `rule.d_rule->d_matches.load()`.
T_Load(r) ==
  /\ rd[r].pc = "load"
  /\ IF rd[r].pos < Len(heap[rd[r].held])
       THEN LET rule == heap[rd[r].held][rd[r].pos + 1]
            IN rd' = [rd EXCEPT ![r].seen = Append(@, rule),
                                ![r].counts = Append(@, matches[rule.d_rule]),
                                ![r].pos = @ + 1]
       ELSE rd' = [rd EXCEPT ![r].pc = "sort"]
  /\ UNCHANGED <<heap, d_state, d_lock, published, wr>>
  /\ UNCHANGED seqVars
  /\ UNCHANGED idVars
  /\ UNCHANGED respVars

\* Lines 217-234: the sort, the copy of the first entries, the return.  These
\* read only the function's own vectors and the snapshot.  The count asked
\* for (or TopDefault) is first used here, so it is drawn here.
T_Return(r, top, sorted) ==
  /\ rd[r].pc = "sort"
  /\ sorted \in SortOutcomes(Counts(rd[r].counts))
  /\ ret' = TopLoop(rd[r].seen, sorted, top, 0, << >>)
  /\ call' = [NoCall EXCEPT !.op = "getTopRules", !.a = top,
                            !.pre = rd[r].seen, !.counts = rd[r].counts]
  /\ prev' = NoCall
  /\ rd' = [rd EXCEPT ![r] = IdleReader]
  /\ UNCHANGED <<rules, g_outputBuffer, matches>>
  /\ UNCHANGED <<heap, d_state, d_lock, published, wr>>
  /\ UNCHANGED idVars
  /\ UNCHANGED respVars

\* ---------------------------------------------------------- machine
\* The console runs one command at a time, each to completion.

InitSeq ==
  /\ rules = << >>
  /\ g_outputBuffer = ""
  /\ matches = [r \in RuleIds |-> 0]
  /\ ret = << >>
  /\ call = NoCall
  /\ prev = NoCall

InitCow ==
  /\ heap = << << >> >>
  /\ d_state = 1
  /\ d_lock = "free"
  /\ published = {<< >>}
  /\ wr = [w \in Writers |-> IdleWriter]
  /\ rd = [r \in Readers |-> IdleReader]

InitIds ==
  /\ created = << >>
  /\ s_creationOrder = 0

\* The response chains are created empty.
InitResp == respRules = [h \in RespHolders |-> << >>]

Init == InitSeq /\ InitCow /\ InitIds /\ InitResp

Next ==
  \/ \E str \in Strings, endFirst \in BOOLEAN : rmRuleStr(str, endFirst)
  \/ \E pos \in Nums : rmRulePos(pos)
  \/ moveRuleToTop
  \/ \E from \in Nums, to \in Nums : mvRule(from, to)
  \/ clearRules
  \/ \E input \in Inputs : setRules(input)
  \/ \E v \in ShowVars : showRules(v)
  \/ \E run \in BenchRuns :
       \E qps \in BenchQps(BenchTimes(run), run.udiff) : benchRule(run, qps)

Spec == Init /\ [][Next]_vars

\* The console's commands on the response chains, started from chains the
\* response-action bindings have filled.
RespStarts == {<< >>, <<NewEntry(P1), NewEntry(P2)>>, <<NewEntry(P3)>>}
RespNums == 0 .. 2
RespStrings == {"a", "u1"}

InitRespChains ==
  /\ InitSeq
  /\ InitCow
  /\ InitIds
  /\ respRules \in {[h \in RespHolders |->
                       IF h = "resp" THEN x ELSE IF h = "cachehit" THEN y ELSE << >>] :
                     x \in RespStarts, y \in RespStarts}

NextResp ==
  \/ \E h \in RespHolders, v \in ShowVars : showResponseRules(h, v)
  \/ \E h \in RespHolders, str \in RespStrings, endFirst \in BOOLEAN :
        rmResponseRuleStr(h, str, endFirst)
  \/ \E h \in RespHolders, pos \in RespNums : rmResponseRulePos(h, pos)
  \/ \E h \in RespHolders : mvResponseRuleToTop(h)
  \/ \E h \in RespHolders, from \in RespNums, to \in RespNums :
        mvResponseRule(h, from, to)

SpecResp == InitRespChains /\ [][NextResp]_vars

\* getTopRules over every chain setRules can build and every assignment of
\* match counts the hot path can produce.
Chains == {SelectSeq(input, LAMBDA p : p.d_action) : input \in Inputs}

InitTop ==
  /\ rules \in Chains
  /\ g_outputBuffer = ""
  /\ matches = [r \in RuleIds |-> 0]
  /\ ret = << >>
  /\ call = NoCall
  /\ prev = NoCall
  /\ heap = << rules >>
  /\ d_state = 1
  /\ d_lock = "free"
  /\ published = {rules}
  /\ wr = [w \in Writers |-> IdleWriter]
  /\ rd = [r \in Readers |-> IdleReader]
  /\ InitIds
  /\ InitResp

NextTop ==
  \/ \E r \in RuleIds : Match(r)
  \/ \E r \in Readers : T_GetLocal(r)
  \/ \E r \in Readers : T_Load(r)
  \/ \E r \in Readers, top \in Nums \cup {TopDefault} :
        \E sorted \in SortOutcomes(Counts(rd[r].counts)) : T_Return(r, top, sorted)

SpecTop == InitTop /\ [][NextTop]_vars

\* showRules as a reader while the hot path counts matches: a row shows the
\* counter as it stands when the row is made.
ShowChains == {<<NewEntry(P1), NewEntry(P2)>>, <<NewEntry(P3)>>}

InitShow == InitTop /\ rules \in ShowChains

NextShow ==
  \/ \E r \in RuleIds : Match(r)
  \/ \E r \in Readers : R_GetLocal(r)
  \/ \E r \in Readers : R_Next(r)
  \/ \E r \in Readers, v \in ShowVars : R_Return(r, v)

SpecShow == InitShow /\ [][NextShow]_vars

\* makeRule over every shape of argument.
NextMake == \E var \in MakeInputs : makeRule(var)

SpecMake == Init /\ [][NextMake]_vars

\* Objects are created with and without a 'uuid' parameter, installed with
\* setRules and then removed and moved.
IdNums == 0 .. 1
IdStrings == {"a", "u1"}

NextIds ==
  \/ \E params \in RuleParams : newRuleAction(params)
  \/ \E input \in CreatedInputs : setRules(input)
  \/ \E str \in IdStrings, endFirst \in BOOLEAN : rmRuleStr(str, endFirst)
  \/ \E pos \in IdNums : rmRulePos(pos)
  \/ moveRuleToTop
  \/ \E from \in IdNums, to \in IdNums : mvRule(from, to)
  \/ clearRules

SpecIds == Init /\ [][NextIds]_vars

\* Writers and readers as threads, one source statement at a time.
NextCow ==
  \/ \E w \in Writers, cmd \in CowReadCommands : W_Begin(w, cmd)
  \/ \E w \in Writers : W_RmPos(w)
  \/ \E w \in Writers : W_RmStr(w)
  \/ \E w \in Writers : W_MvErase(w)
  \/ \E w \in Writers : W_MvInsert(w)
  \/ \E w \in Writers : W_TopErase(w)
  \/ \E w \in Writers : W_TopInsert(w)
  \/ \E w \in Writers : W_Clear(w)
  \/ \E w \in Writers : W_Push(w)
  \/ \E w \in Writers : W_Publish(w)
  \/ \E r \in Readers : R_GetLocal(r)
  \/ \E r \in Readers : R_Next(r)
  \/ \E r \in Readers, v \in ShowVars : R_Return(r, v)

SpecCow == Init /\ [][NextCow]_vars

\* ------------------------------------------------------------ properties
\* Zero-based positions of the entries of rs that str designates: by id when
\* str is the text of a UUID, by name otherwise.
Designated(rs, str) ==
  {i \in 0 .. Len(rs) - 1 :
     IF IsUUID(str) THEN At(rs, i).d_id = getUniqueID(str)
                    ELSE At(rs, i).d_name = str}

Lowest(S) == CHOOSE i \in S : \A j \in S : i <= j

\* C1: rmRule with a string that designates an entry publishes the previous
\* chain minus exactly one entry (the one with that id, or the first one with
\* that name), everything else in order, and reports no 'no rule matched'.
\* Stated for the case the claim spells out, a chain in which a later entry
\* is designated by the same string.
C1_RmByStringRemovesExactlyOne ==
  (call.op = "rmRuleStr" /\ Cardinality(Designated(call.pre, call.str)) >= 2)
    => /\ g_outputBuffer # ErrNoMatch
       /\ rules = EraseAt(call.pre, Lowest(Designated(call.pre, call.str)))

\* C2: rmRule with a UUID no entry carries, or with a non-UUID string that is
\* no entry's name, reports 'no rule matched' and leaves the chain as it was.
C2_RmUnknownIsNotFound ==
  (call.op = "rmRuleStr" /\ Designated(call.pre, call.str) = {})
    => /\ g_outputBuffer = ErrNoMatch
       /\ rules = call.pre

\* C2 witness: a chain holding an entry named "u9" is asked to remove "u9",
\* which reads as a UUID that no entry carries.
C2_Witness ==
  /\ call.op = "rmRuleStr"
  /\ call.str = "u9"
  /\ \E i \in 1 .. Len(call.pre) : call.pre[i].d_name = "u9"
  /\ Designated(call.pre, call.str) = {}
  /\ g_outputBuffer = ErrNoMatch
  /\ rules = call.pre

MvValid(c) == c.op = "mvRule" /\ c.a < Len(c.pre) /\ c.b <= Len(c.pre)

\* C3 as stated: after mvRule(from, to) with valid indices the entry that was
\* at `from` is at position `to` (the last position when to = length), the
\* others keeping their relative order.
C3_MvLandsAtTo ==
  MvValid(call)
    => LET p == IF call.b = Len(call.pre) THEN call.b - 1 ELSE call.b
       IN /\ Len(rules) = Len(call.pre)
          /\ At(rules, p) = At(call.pre, call.a)
          /\ EraseAt(rules, p) = EraseAt(call.pre, call.a)

\* C3 amended: after mvRule(from, to) with valid indices the entry that was at
\* `from` is at position `to` when to <= from and at position to - 1 when
\* from < to, the others keeping their relative order.
C3_MvLandsBeforeTo ==
  MvValid(call)
    => LET p == IF call.a < call.b THEN call.b - 1 ELSE call.b
       IN /\ Len(rules) = Len(call.pre)
          /\ At(rules, p) = At(call.pre, call.a)
          /\ EraseAt(rules, p) = EraseAt(call.pre, call.a)

\* C3 witness: a forward move inside a chain of three that changed the order.
C3_Witness ==
  /\ MvValid(call)
  /\ call.a < call.b
  /\ call.b < Len(call.pre)
  /\ rules # call.pre
  /\ At(rules, call.b - 1) = At(call.pre, call.a)

\* C4: mvRule reports the invalid-index error exactly when from >= length or
\* to > length, and then the chain is unchanged.
C4_MvInvalidIndexExactly ==
  call.op = "mvRule"
    => /\ (g_outputBuffer = ErrMove)
            <=> (call.a >= Len(call.pre) \/ call.b > Len(call.pre))
       /\ (g_outputBuffer = ErrMove) => rules = call.pre

\* C4 witness: both sides of the boundary to = length / to = length + 1 on a
\* non-empty chain; this one is the accepted side, to = length.
C4_Witness ==
  /\ call.op = "mvRule"
  /\ call.pre # << >>
  /\ call.a < Len(call.pre)
  /\ call.b = Len(call.pre)
  /\ g_outputBuffer # ErrMove
  /\ rules # call.pre

\* C5: rmRule with a position reports the non-existing-rule error and leaves
\* the chain unchanged when index >= length, and otherwise publishes the chain
\* without the entry at that position, the others in order.
C5_RmByPosition ==
  call.op = "rmRulePos"
    => IF call.a >= Len(call.pre)
         THEN g_outputBuffer = ErrDelete /\ rules = call.pre
         ELSE /\ g_outputBuffer # ErrDelete
              /\ Len(rules) = Len(call.pre) - 1
              /\ \A i \in 0 .. Len(rules) - 1 :
                   At(rules, i) = At(call.pre, IF i < call.a THEN i ELSE i + 1)

\* C5 witness: index = length on a non-empty chain is refused.
C5_Witness ==
  /\ call.op = "rmRulePos"
  /\ call.pre # << >>
  /\ call.a = Len(call.pre)
  /\ g_outputBuffer = ErrDelete
  /\ rules = call.pre

\* Positions (one-based) of the supplied entries that have an action.
WithAction(input) == {i \in 1 .. Len(input) : input[i].d_action}

\* C9: after setRules the chain is exactly the supplied entries that have an
\* action, in the supplied order, each with its id, name and creation order.
C9_SetRulesReplaces ==
  call.op = "setRules"
    => /\ g_outputBuffer = ""
       /\ Len(rules) = Cardinality(WithAction(call.input))
       /\ \A i \in WithAction(call.input) :
            LET k == Cardinality({j \in WithAction(call.input) : j <= i})
            IN /\ rules[k].d_id = call.input[i].d_id
               /\ rules[k].d_name = call.input[i].d_name
               /\ rules[k].d_creationOrder = call.input[i].d_creationOrder
               /\ rules[k].d_action

\* C9 witness: a non-empty chain is replaced by an array whose action-less
\* entry precedes a kept one, and an entry of the old chain is gone.
C9_Witness ==
  /\ call.op = "setRules"
  /\ call.pre # << >>
  /\ Len(call.input) = 3
  /\ ~call.input[2].d_action
  /\ Len(rules) = 2
  /\ \E i \in 1 .. Len(call.pre) : \A k \in 1 .. Len(rules) : rules[k] # call.pre[i]

\* C10: mvRule(i, i) with i < length leaves the chain unchanged, and
\* mvRule(from, to) with from < to <= length followed by mvRule(to - 1, from)
\* restores the chain.
C10_MvRoundTrip ==
  /\ (MvValid(call) /\ call.a = call.b) => rules = call.pre
  /\ (prev.op = "mvRule" /\ call.op = "mvRule"
        /\ call.a = prev.b - 1 /\ call.b = prev.a)
       => rules = prev.pre

\* C10 witness: a forward move over at least one entry, then the move back.
C10_Witness ==
  /\ prev.op = "mvRule"
  /\ prev.a + 2 <= prev.b
  /\ call.op = "mvRule"
  /\ call.a = prev.b - 1
  /\ call.b = prev.a
  /\ call.pre # prev.pre
  /\ rules = prev.pre

\* Position (zero-based) in chain rs of entry e; entries of a chain built by
\* setRules from distinct objects are distinct.
PosIn(rs, e) == CHOOSE i \in 0 .. Len(rs) - 1 : At(rs, i) = e

\* The match count getTopRules loaded for entry e of the chain it ran on.
LoadedOf(e) == call.counts[PosIn(call.pre, e) + 1]

\* C6: getTopRules returns entries in descending match-count order, entries
\* with equal match counts in the order of their chain positions.
C6_TopDescendingStable ==
  call.op = "getTopRules"
    => \A i, j \in 1 .. Len(ret) :
         i < j => \/ LoadedOf(ret[i]) > LoadedOf(ret[j])
                  \/ /\ LoadedOf(ret[i]) = LoadedOf(ret[j])
                     /\ PosIn(call.pre, ret[i]) < PosIn(call.pre, ret[j])

Min(x, y) == IF x <= y THEN x ELSE y

\* C7: getTopRules(n) returns exactly min(n, length) entries for every n >= 0,
\* in particular none when n = 0.
C7_TopReturnsMinOfNAndLength ==
  call.op = "getTopRules" => Len(ret) = Min(call.a, Len(call.pre))

IsPrefix(s, t) == Len(s) <= Len(t) /\ SubSeq(t, 1, Len(s)) = s

\* C8: whatever writers do meanwhile, the vector a reader holds stays the
\* vector it obtained, which was the holder's published state; what the
\* reader has iterated over is a prefix of it, and the whole of it at the end.
C8_ReadersSeeWholeSnapshots ==
  \A r \in Readers :
    rd[r].pc # "idle"
      => /\ heap[rd[r].held] = rd[r].snap
         /\ rd[r].snap \in published
         /\ IsPrefix(rd[r].seen, rd[r].snap)
         /\ rd[r].pc = "done" => rd[r].seen = rd[r].snap

\* C8 witness: a reader finished a pass over a two-entry vector that has been
\* replaced since, while a writer sits between its erase and its insert.
C8_Witness ==
  \E r \in Readers, w \in Writers :
    /\ rd[r].pc = "done"
    /\ Len(rd[r].seen) = 2
    /\ d_state # rd[r].held
    /\ heap[d_state] # rd[r].seen
    /\ wr[w].pc = "insert"

\* C11: moveRuleToTop on a chain of length L > 0 publishes the entry that was
\* last at position 0 and the entries that were at 0 .. L-2 at 1 .. L-1, in
\* the same order; on the empty chain it changes nothing.
C11_MoveRuleToTop ==
  call.op = "moveRuleToTop"
    => /\ g_outputBuffer = ""
       /\ Len(rules) = Len(call.pre)
       /\ call.pre # << >> => At(rules, 0) = At(call.pre, Len(call.pre) - 1)
       /\ \A i \in 0 .. Len(call.pre) - 2 : At(rules, i + 1) = At(call.pre, i)

\* C11 witness: the last of three entries went to the top.
C11_Witness ==
  /\ call.op = "moveRuleToTop"
  /\ Len(call.pre) = 3
  /\ rules = << call.pre[3], call.pre[1], call.pre[2] >>
  /\ rules # call.pre

\* The strings of a makeRule argument that is a string or an array of them.
StringsOf(var) ==
  IF var.type = "string" THEN {var.val} ELSE {var.val[i] : i \in 1 .. Len(var.val)}

C14_ChainIdsUnique ==
  \A i \in DOMAIN rules : \A j \in DOMAIN rules :
    i # j => rules[i].d_id # rules[j].d_id

=============================================================================
